---- MODULE Spec2Model ----
(***************************************************************************)
(* A model of neonx/neo.py: the translation of a NetworkX graph into a     *)
(* Neo4j batch request (generate_data), the response validation            *)
(* (check_exception), the two-request export and import calls              *)
(* (write_to_neo, get_neo_graph) and the reconstruction of a DiGraph from  *)
(* the batch query's answer.                                               *)
(*                                                                         *)
(* Python values are represented as follows.                               *)
(*   None            the string "None"                                     *)
(*   a dict          a set of <<key, value>> pairs with pairwise distinct  *)
(*                   keys (an insertion-ordered dict whose order is read:  *)
(*                   a sequence of such pairs)                             *)
(*   "{{{0}}}".format(i)   the sequence <<"{", i, "}">>                    *)
(*   a string path   a sequence of its pieces                              *)
(*   a graph         [directed, nodes, edges], nodes and edges being the   *)
(*                   sequences graph.nodes(data=True) and                  *)
(*                   graph.edges(data=True) iterate                        *)
(***************************************************************************)
EXTENDS Integers, Sequences, FiniteSets, TLC

VARIABLES pc, call, requests, responses, ret

vars == <<pc, call, requests, responses, ret>>

(***************************************************************************)
(* Bounds of the model.                                                    *)
(***************************************************************************)
MaxNodes == 2
MaxEdges == 2
MaxRecords == 2

None == "None"

\* `if x:` on a value that is None or a string.
Truthy(x) == x \notin {None, ""}

(***************************************************************************)
(* dicts                                                                   *)
(***************************************************************************)
Keys(d) == {p[1] : p \in d}

HasKey(d, k) == \E p \in d : p[1] = k

\* d[k], defined when HasKey(d, k); the caller handles the KeyError.
Lookup(d, k) == (CHOOSE p \in d : p[1] = k)[2]

\* d[k] = v
DictSet(d, k, v) == {p \in d : p[1] # k} \cup {<<k, v>>}

\* d.update(e)
DictUpdate(d, e) == {p \in d : p[1] \notin Keys(e)} \cup e

\* od[k] = v on an insertion-ordered dict: a present key keeps its place.
RECURSIVE ODictSet(_, _, _)
ODictSet(od, k, v) ==
    IF od = <<>> THEN <<<<k, v>>>>
    ELSE IF Head(od)[1] = k THEN <<<<k, v>>>> \o Tail(od)
    ELSE <<Head(od)>> \o ODictSet(Tail(od), k, v)

\* A mutant of ODictGet: the place of the key in the dict rather than the
\* value stored under it.
ODictGetPlace(od, k) == CHOOSE i \in 1..Len(od) : od[i][1] = k

\* od[k], defined when the key is present.
ODictGet(od, k) == od[CHOOSE i \in 1..Len(od) : od[i][1] = k][2]

\* A mutant of ODictValues: the values in hash order rather than in insertion
\* order, here the reverse.
ODictValuesReversed(od) == [i \in 1..Len(od) |-> od[Len(od) + 1 - i][2]]

\* od.values()
ODictValues(od) == [i \in 1..Len(od) |-> od[i][2]]

(***************************************************************************)
(* The entity formatters.                                                  *)
(***************************************************************************)
Placeholder(i) == <<"{", i, "}">>

\* A mutant of get_node: enumerate(..., 1).
get_node_from_one(node_id, properties) ==
    [method |-> "POST", to |-> <<"/node">>, id |-> node_id + 1,
     body |-> properties]

get_node(node_id, properties) ==
    [method |-> "POST", to |-> <<"/node">>, id |-> node_id, body |-> properties]

get_relationship(from_id, to_id, rel_name, properties) ==
    [method |-> "POST",
     to |-> Placeholder(from_id) \o <<"/relationships">>,
     body |-> [to |-> Placeholder(to_id), type |-> rel_name,
               data |-> properties]]

get_label(i, label) ==
    [method |-> "POST", to |-> Placeholder(i) \o <<"/labels">>, body |-> label]

\* The kind of a batch operation, read off its "to" path.
IsCreateNode(e) == e.to = <<"/node">>
IsAddLabel(e) == Len(e.to) = 4 /\ e.to[4] = "/labels"
IsCreateRelationship(e) == Len(e.to) = 4 /\ e.to[4] = "/relationships"

(***************************************************************************)
(* What a call produces: a returned value or a raised exception.           *)
(***************************************************************************)
Return(v) == [kind |-> "return", exc |-> None, value |-> v]

Raise(exc, args) == [kind |-> "raise", exc |-> exc, value |-> args]

NoResult == [kind |-> "none", exc |-> None, value |-> None]

(***************************************************************************)
(* generate_data                                                           *)
(***************************************************************************)
\* The first loop: one CreateNode per node, numbered by enumerate(), and the
\* dict `nodes` from node name to that number.
RECURSIVE NodeLoop(_, _, _, _)
NodeLoop(ns, i, entities, nodes) ==
    IF i > Len(ns) THEN [entities |-> entities, nodes |-> nodes]
    ELSE NodeLoop(ns, i + 1,
                  Append(entities, get_node(i - 1, ns[i][2])),
                  ODictSet(nodes, ns[i][1], i - 1))

\* The second loop, guarded by `if label:`.
LabelLoop(nodes, label) ==
    IF Truthy(label)
    THEN LET vals == ODictValues(nodes)
         IN  [j \in 1..Len(vals) |-> get_label(vals[j], label)]
    ELSE <<>>

\* A mutant of EdgeName: edge_rel_name, when given, wins over the edge's own
\* property.
EdgeNamePreferName(properties, edge_rel_name, edge_rel_key) ==
    IF edge_rel_name # None THEN Return(edge_rel_name)
    ELSE IF HasKey(properties, edge_rel_key)
         THEN Return(Lookup(properties, edge_rel_key))
         ELSE Raise("ValueError", <<"Invalid edge label key">>)

\* The name of one edge's relationship, or the ValueError of line 102.
EdgeName(properties, edge_rel_name, edge_rel_key) ==
    IF edge_rel_key # None
    THEN IF HasKey(properties, edge_rel_key)
         THEN Return(Lookup(properties, edge_rel_key))
         ELSE IF edge_rel_name # None
              THEN Return(edge_rel_name)
              ELSE Raise("ValueError", <<"Invalid edge label key">>)
    ELSE Return(edge_rel_name)

\* A mutant of EdgeEntities: no reverse operation for a Graph.
EdgeEntitiesForwardOnly(is_digraph, nodes, edge, ename) ==
    <<get_relationship(ODictGet(nodes, edge[1]), ODictGet(nodes, edge[2]),
                       ename, edge[3])>>

\* The operations of one edge: the forward one and, for a graph that is
\* not a DiGraph, the reverse one.
EdgeEntities(is_digraph, nodes, edge, ename) ==
    LET from_id == ODictGet(nodes, edge[1])
        to_id == ODictGet(nodes, edge[2])
    IN  <<get_relationship(from_id, to_id, ename, edge[3])>> \o
        (IF is_digraph THEN <<>>
         ELSE <<get_relationship(to_id, from_id, ename, edge[3])>>)

\* The third loop; the first edge whose name cannot be resolved ends the
\* call with the exception.
RECURSIVE EdgeLoop(_, _, _, _, _, _)
EdgeLoop(graph, nodes, i, entities, edge_rel_name, edge_rel_key) ==
    IF i > Len(graph.edges) THEN Return(entities)
    ELSE LET ename == EdgeName(graph.edges[i][3], edge_rel_name, edge_rel_key)
         IN  IF ename.kind = "raise" THEN ename
             ELSE EdgeLoop(graph, nodes, i + 1,
                           entities \o EdgeEntities(graph.directed, nodes,
                                                    graph.edges[i], ename.value),
                           edge_rel_name, edge_rel_key)

\* encoder.encode(entities): the JSON array of the operations, kept as the
\* array it parses to.
encode(entities) == [array |-> entities]

\* A mutant of generate_data: the check of lines 77 to 79 is missing.
generate_data_unchecked(graph, edge_rel_name, label, edge_rel_key) ==
    LET n == NodeLoop(graph.nodes, 1, <<>>, <<>>)
        labelled == n.entities \o LabelLoop(n.nodes, label)
        e == EdgeLoop(graph, n.nodes, 1, labelled, edge_rel_name, edge_rel_key)
    IN  IF e.kind = "raise" THEN e ELSE Return(encode(e.value))

generate_data(graph, edge_rel_name, label, edge_rel_key) ==
    IF edge_rel_name = None /\ edge_rel_key = None
    THEN Raise("ValueError",
               <<"Must provide either edge_rel_name or edge_rel_key">>)
    ELSE LET n == NodeLoop(graph.nodes, 1, <<>>, <<>>)
             labelled == n.entities \o LabelLoop(n.nodes, label)
             e == EdgeLoop(graph, n.nodes, 1, labelled, edge_rel_name,
                           edge_rel_key)
         IN  IF e.kind = "raise" THEN e ELSE Return(encode(e.value))

(***************************************************************************)
(* The inputs: graphs of at most MaxNodes nodes and MaxEdges edges.        *)
(***************************************************************************)
NodeNameSeq == <<"a", "b", "c", "d">>

NodeNames == {NodeNameSeq[i] : i \in 1..MaxNodes}

\* The attributes the caller gave each node.
NodeProps(name) ==
    CASE name = "a" -> {}
      [] name = "b" -> {<<"debug", "test">>}
      [] name = "c" -> {<<"name", "c">>, <<"debug", "x">>}
      [] OTHER -> {}

EdgeProps == { {}, {<<"label", "KNOWS">>, <<"since", "2011">>},
               {<<"label", "">>} }

EdgeRelNames == {None, "", "LINKS_TO"}
Labels == {None, "", "ITEM"}
EdgeRelKeys == {None, "label"}

Injective(s) == \A i, j \in 1..Len(s) : i # j => s[i] # s[j]

\* graph.nodes(data=True) of a graph whose nodes, in node order, are named s.
NodeData(s) == [i \in 1..Len(s) |-> <<s[i], NodeProps(s[i])>>]

\* The place of a node in the graph's node order.
Pos(ns, name) == CHOOSE i \in 1..Len(ns) : ns[i][1] = name

\* es can be graph.edges(data=True) of a DiGraph or a Graph whose nodes are
\* ns: networkx walks the nodes in node order and reports each node's edges,
\* so the edges come grouped by source in node order; there is at most one
\* edge per pair of nodes; a Graph reports an edge once, from its endpoint
\* that comes first in node order.
EdgesOf(directed, ns, es) ==
    LET names == {ns[i][1] : i \in 1..Len(ns)}
    IN  /\ \A i \in 1..Len(es) : es[i][1] \in names /\ es[i][2] \in names
        /\ \A i, j \in 1..Len(es) : i < j =>
              /\ <<es[i][1], es[i][2]>> # <<es[j][1], es[j][2]>>
              /\ Pos(ns, es[i][1]) <= Pos(ns, es[j][1])
        /\ directed \/ \A i \in 1..Len(es) :
                            Pos(ns, es[i][1]) <= Pos(ns, es[i][2])

NoGraph == [directed |-> TRUE, nodes |-> <<>>, edges |-> <<>>]

\* The graph of the nodes named names, in that order, and the edges edges.
GraphOf(directed, names, edges) ==
    [directed |-> directed, nodes |-> NodeData(names), edges |-> edges]

\* The edges a graph of at most MaxNodes nodes may have.
EdgeChoices == NodeNames \X NodeNames \X EdgeProps

(***************************************************************************)
(* HTTP: the responses of the server and the requests of the module.       *)
(***************************************************************************)
JSON_CONTENT_TYPE == "application/json; charset=utf-8"

HEADERS == {<<"content-type", JSON_CONTENT_TYPE>>}

SERVER_URL == "http://localhost:7474/db/data/"
BATCH_URL == "http://localhost:7474/db/data/batch"
USER == "neo4j"
PASSWORD == "secret"

\* A response body: its raw content and what it parses to, a JSON object
\* (a dict) or a JSON array, unless it is no JSON at all.
TextBody(text) == [kind |-> "text", text |-> text, object |-> {}, array |-> <<>>]
ObjectBody(text, object) ==
    [kind |-> "object", text |-> text, object |-> object, array |-> <<>>]
ArrayBody(text, array) ==
    [kind |-> "array", text |-> text, object |-> {}, array |-> array]

Response(status_code, content_type, body) ==
    [status_code |-> status_code, content_type |-> content_type, body |-> body]

\* The content types a server answers with; "" stands for no content-type
\* header, as result.headers.get('content-type', '') reads it.
ContentTypes == {"application/json; charset=UTF-8", "application/json",
                 "text/html", ""}

\* str.lower() on the content types above.
Lower(s) ==
    IF s = "application/json; charset=UTF-8"
    THEN "application/json; charset=utf-8"
    ELSE s

\* The bodies of the tests: the discovery directory, an error report with and
\* without an `errors` entry, a page that is not JSON, the answer to a write.
DirectoryBody == ObjectBody("{batch}", {<<"batch", BATCH_URL>>})
ErrorsBody == ObjectBody("{errors}", {<<"errors", "[Neo.ClientError]">>})
ExceptionBody ==
    ObjectBody("{exception, stacktrace}",
               {<<"exception", "Error">>, <<"stacktrace", "1">>})
PageBody == TextBody("Server Error")
DummyBody == ArrayBody("[Dummy]", <<"Dummy">>)

Bodies == {DirectoryBody, ErrorsBody, ExceptionBody, PageBody, DummyBody}

\* A page that is not JSON is not announced as JSON.
Plausible(content_type, body) ==
    body.kind = "text" =>
        content_type \notin {"application/json; charset=UTF-8",
                             "application/json"}

AllResponses ==
    {r \in {Response(st, ct, b) :
                st \in {200, 201, 404, 500}, ct \in ContentTypes,
                b \in Bodies \ {DummyBody}} :
        Plausible(r.content_type, r.body)}

\* The responses the server gives within a call.
ServerResponses ==
    {r \in {Response(st, ct, b) :
                st \in {200, 500},
                ct \in {"application/json; charset=UTF-8", "text/html"},
                b \in Bodies} :
        Plausible(r.content_type, r.body)}

NoResponse == Response(0, "", TextBody(""))

\* result.json()
json(result) ==
    IF result.body.kind = "text"
    THEN Raise("ValueError", <<"No JSON object could be decoded">>)
    ELSE Return(IF result.body.kind = "object" THEN result.body.object
                ELSE result.body.array)

\* A mutant of check_exception: every answer is accepted.
check_exception_accepting(result) == Return(None)

check_exception(result) ==
    IF result.status_code = 200 THEN Return(None)
    ELSE IF Lower(result.content_type) = JSON_CONTENT_TYPE
         THEN \* result_json = result.json(); Exception(result_json['errors'])
              IF result.body.kind = "text" THEN json(result)
              ELSE IF result.body.kind = "array"
                   THEN Raise("TypeError",
                              <<"list indices must be integers">>)
                   ELSE IF HasKey(result.body.object, "errors")
                        THEN Raise("Exception",
                                   <<Lookup(result.body.object, "errors")>>)
                        ELSE Raise("KeyError", <<"errors">>)
         ELSE Raise("Exception", <<"Unknown server error.", result.body.text>>)

NoData == [array |-> <<>>]

\* requests.get(url, auth=auth)
Get(url, auth) ==
    [method |-> "GET", url |-> url, auth |-> auth, headers |-> {},
     data |-> NoData]

\* requests.post(url, data=data, headers=headers, auth=auth); no auth is <<>>.
Post(url, data, headers, auth) ==
    [method |-> "POST", url |-> url, auth |-> auth, headers |-> headers,
     data |-> data]

\* get_server_urls, from the answer to its GET on.
get_server_urls(result) ==
    LET checked == check_exception(result)
    IN  IF checked.kind = "raise" THEN checked ELSE json(result)

\* all_server_urls['batch'] on what get_server_urls returned.
BatchUrl(result) ==
    IF result.body.kind = "array"
    THEN Raise("TypeError", <<"list indices must be integers">>)
    ELSE IF HasKey(result.body.object, "batch")
         THEN Return(Lookup(result.body.object, "batch"))
         ELSE Raise("KeyError", <<"batch">>)

(***************************************************************************)
(* get_neo_graph: the query and the reconstruction of the graph.           *)
(***************************************************************************)
LABEL_QRY(a, b) ==
    <<"MATCH (a:", a, ")-[r]->(b:", b, ") RETURN ID(a), r, ID(b);">>

\* json.dumps(data) of the two operations of the query.
ImportData(label) ==
    encode(<<[method |-> "GET", to |-> <<"/label/", label, "/nodes">>,
              body |-> {}],
             [method |-> "POST", to |-> <<"/cypher">>,
              body |-> [query |-> LABEL_QRY(label, label), params |-> {}]]>>)

\* A string is the sequence of its characters.
Digits == <<"0", "1", "2", "3", "4", "5", "6", "7", "8", "9">>

IsDigit(c) == \E d \in 1..10 : Digits[d] = c

DigitValue(c) == (CHOOSE d \in 1..10 : Digits[d] = c) - 1

\* s.rpartition('/')[-1]: what follows the last '/', all of s if there is
\* none.
RPartitionLast(s) ==
    LET slashes == {i \in 1..Len(s) : s[i] = "/"}
    IN  IF slashes = {} THEN s
        ELSE SubSeq(s, (CHOOSE i \in slashes : \A j \in slashes : j <= i) + 1,
                    Len(s))

\* int(s) accepts s (strings of digits; signs and blanks are not in the
\* alphabet of the model).
IsInt(s) == s # <<>> /\ \A i \in 1..Len(s) : IsDigit(s[i])

RECURSIVE int(_)
int(s) ==
    IF Len(s) = 0 THEN 0
    ELSE 10 * int(SubSeq(s, 1, Len(s) - 1)) + DigitValue(s[Len(s)])

EmptyDiGraph == [nodes |-> <<>>, edges |-> {}]

HasNode(graph, n) == \E i \in 1..Len(graph.nodes) : graph.nodes[i][1] = n

\* graph.add_node(n, **attr): a new node gets attr, a known one is updated.
add_node(graph, n, attr) ==
    [graph EXCEPT !.nodes =
        ODictSet(@, n, IF HasNode(graph, n)
                       THEN DictUpdate(ODictGet(@, n), attr)
                       ELSE attr)]

\* graph.add_edge(u, v, **attr): the endpoints become nodes if they are not
\* yet; a new edge gets attr, a known one is updated.
add_edge(graph, u, v, attr) ==
    LET withU == IF HasNode(graph, u) THEN graph ELSE add_node(graph, u, {})
        withV == IF HasNode(withU, v) THEN withU ELSE add_node(withU, v, {})
    IN  [withV EXCEPT !.edges =
            DictSet(@, <<u, v>>,
                    IF HasKey(@, <<u, v>>)
                    THEN DictUpdate(Lookup(@, <<u, v>>), attr)
                    ELSE attr)]

\* A mutant of EdgeProperties: properties.setdefault('neo_rel_name', ...).
EdgePropertiesKeeping(relationship) ==
    IF HasKey(relationship.data, "neo_rel_name") THEN relationship.data
    ELSE DictSet(relationship.data, "neo_rel_name", relationship.type)

\* properties = relationship['data'];
\* properties['neo_rel_name'] = relationship['type']
EdgeProperties(relationship) ==
    DictSet(relationship.data, "neo_rel_name", relationship.type)

\* The loop over node_data['body']; int() raises ValueError.
RECURSIVE NodeRecordLoop(_, _, _)
NodeRecordLoop(recs, i, graph) ==
    IF i > Len(recs) THEN Return(graph)
    ELSE LET tail == RPartitionLast(recs[i].self)
         IN  IF ~IsInt(tail)
             THEN Raise("ValueError", <<"invalid literal for int()">>)
             ELSE NodeRecordLoop(recs, i + 1,
                                 add_node(graph, int(tail), recs[i].data))

\* The loop over edge_date['body']['data'].
RECURSIVE EdgeRecordLoop(_, _, _)
EdgeRecordLoop(recs, i, graph) ==
    IF i > Len(recs) THEN graph
    ELSE EdgeRecordLoop(recs, i + 1,
                        add_edge(graph, recs[i][1], recs[i][3],
                                 EdgeProperties(recs[i][2])))

\* Lines 258 to 272, on the parsed answer <<node_data, edge_date>>.
BuildGraph(node_records, edge_records) ==
    LET n == NodeRecordLoop(node_records, 1, EmptyDiGraph)
    IN  IF n.kind = "raise" THEN n
        ELSE Return(EdgeRecordLoop(edge_records, 1, n.value))

\* The records a server answers the query with.
URL_1 == <<"n", "o", "d", "e", "/", "1">>
URL_01 == <<"x", "/", "n", "/", "0", "1">>
URL_2 == <<"n", "/", "2">>
URL_X == <<"n", "/", "1", "x">>

NodeRecords ==
    { [self |-> URL_1, data |-> {<<"name", "b">>}],
      [self |-> URL_01, data |-> {<<"name", "x">>, <<"age", "7">>}],
      [self |-> URL_2, data |-> {<<"name", "a">>}],
      [self |-> URL_X, data |-> {}] }

Relationships ==
    { [type |-> "LINKS_TO", data |-> {<<"date", "2011-01-01">>}],
      [type |-> "KNOWS", data |-> {<<"neo_rel_name", "old">>}],
      [type |-> "KNOWS", data |-> {}] }

EdgeRecords == {1, 2} \X Relationships \X {1, 2}

\* The server lists a node once: no two of the records name the same node.
DistinctNodes(node_records) ==
    \A i, j \in 1..Len(node_records) : i < j =>
        LET a == RPartitionLast(node_records[i].self)
            b == RPartitionLast(node_records[j].self)
        IN  IF IsInt(a) /\ IsInt(b) THEN int(a) # int(b) ELSE a # b

ImportLabels == {"Node"}

\* The answer to the query: the nodes, then the edges.
QueryBody(node_records, edge_records) ==
    ArrayBody("[nodes, edges]", <<node_records, edge_records>>)

(***************************************************************************)
(* The state: where the caller is (pc), the call in progress with its      *)
(* arguments (call), the HTTP requests the call has issued (requests), the *)
(* responses it has received (responses) and what it produced (ret).       *)
(***************************************************************************)
NoCall == [op |-> None, graph |-> NoGraph, edge_rel_name |-> None,
           label |-> None, edge_rel_key |-> None, server_url |-> None,
           user |-> None, password |-> None, result |-> NoResponse]

Init ==
    /\ pc = "idle"
    /\ call = NoCall
    /\ requests = <<>>
    /\ responses = <<>>
    /\ ret = NoResult

\* A direct call of generate_data, with the JSONEncoder the tests pass, on a
\* graph of at most MaxNodes nodes and maxEdges edges.
CallGenerateData(maxEdges) ==
    /\ pc = "idle"
    /\ \E directed \in BOOLEAN, n \in 0..MaxNodes, k \in 0..maxEdges :
       \E names \in [1..n -> NodeNames] :
          /\ Injective(names)
          /\ \E edges \in [1..k -> EdgeChoices] :
                /\ EdgesOf(directed, NodeData(names), edges)
                /\ \E edge_rel_name \in EdgeRelNames, label \in Labels,
                      edge_rel_key \in EdgeRelKeys :
                      LET graph == GraphOf(directed, names, edges)
                      IN  /\ call' = [NoCall EXCEPT
                                        !.op = "generate_data",
                                        !.graph = graph,
                                        !.edge_rel_name = edge_rel_name,
                                        !.label = label,
                                        !.edge_rel_key = edge_rel_key]
                          /\ ret' = generate_data(graph, edge_rel_name, label,
                                                  edge_rel_key)
    /\ pc' = "done"
    /\ UNCHANGED <<requests, responses>>

\* A direct call of check_exception.
CallCheckException ==
    /\ pc = "idle"
    /\ \E result \in AllResponses :
          /\ call' = [NoCall EXCEPT !.op = "check_exception",
                                    !.result = result]
          /\ ret' = check_exception(result)
    /\ pc' = "done"
    /\ UNCHANGED <<requests, responses>>

\* write_to_neo up to the GET of get_server_urls, on a graph of at most
\* MaxNodes nodes and one edge: past line 217 the call depends on the graph
\* only through what generate_data makes of it.
CallWriteToNeo ==
    /\ pc = "idle"
    /\ \E directed \in BOOLEAN, n \in 0..MaxNodes, k \in 0..1 :
       \E names \in [1..n -> NodeNames] :
          /\ Injective(names)
          /\ \E edges \in [1..k -> EdgeChoices] :
                /\ EdgesOf(directed, NodeData(names), edges)
                /\ \E edge_rel_name \in EdgeRelNames, label \in Labels,
                      edge_rel_key \in EdgeRelKeys :
                      /\ call' = [NoCall EXCEPT
                                    !.op = "write_to_neo",
                                    !.graph = GraphOf(directed, names, edges),
                                    !.edge_rel_name = edge_rel_name,
                                    !.label = label,
                                    !.edge_rel_key = edge_rel_key,
                                    !.server_url = SERVER_URL,
                                    !.user = USER,
                                    !.password = PASSWORD]
                      /\ IF edge_rel_name = None /\ edge_rel_key = None
                         THEN /\ ret' = Raise("ValueError",
                                   <<"Must provide either edge_rel_name or edge_rel_key">>)
                              /\ pc' = "done"
                              /\ UNCHANGED requests
                         ELSE /\ requests' =
                                    Append(requests,
                                           Get(SERVER_URL, <<USER, PASSWORD>>))
                              /\ pc' = "write_get"
                              /\ UNCHANGED ret
    /\ UNCHANGED responses

\* write_to_neo from the answer to the GET up to the POST.
WriteDiscovered ==
    /\ pc = "write_get"
    /\ \E result \in ServerResponses :
          LET urls == get_server_urls(result)
              batch_url == BatchUrl(result)
              data == generate_data(call.graph, call.edge_rel_name, call.label,
                                    call.edge_rel_key)
              failed == IF urls.kind = "raise" THEN urls
                        ELSE IF batch_url.kind = "raise" THEN batch_url
                        ELSE data
          IN  /\ responses' = Append(responses, result)
              /\ IF failed.kind = "raise"
                 THEN /\ ret' = failed
                      /\ pc' = "done"
                      /\ UNCHANGED requests
                 ELSE /\ requests' =
                            Append(requests,
                                   Post(batch_url.value, data.value, HEADERS,
                                        <<call.user, call.password>>))
                      /\ pc' = "write_post"
                      /\ UNCHANGED ret
    /\ UNCHANGED call

\* write_to_neo from the answer to the POST on.
WritePosted ==
    /\ pc = "write_post"
    /\ \E result \in ServerResponses :
          LET checked == check_exception(result)
          IN  /\ responses' = Append(responses, result)
              /\ ret' = IF checked.kind = "raise" THEN checked
                        ELSE json(result)
    /\ pc' = "done"
    /\ UNCHANGED <<call, requests>>

\* get_neo_graph up to the GET of get_server_urls.
CallGetNeoGraph ==
    /\ pc = "idle"
    /\ \E label \in ImportLabels :
          call' = [NoCall EXCEPT !.op = "get_neo_graph", !.label = label,
                                 !.server_url = SERVER_URL, !.user = USER,
                                 !.password = PASSWORD]
    /\ requests' = Append(requests, Get(SERVER_URL, <<USER, PASSWORD>>))
    /\ pc' = "read_get"
    /\ UNCHANGED <<responses, ret>>

\* get_neo_graph from the answer to the GET up to the POST, which is sent
\* without auth.
ReadDiscovered ==
    /\ pc = "read_get"
    /\ \E result \in ServerResponses :
          LET urls == get_server_urls(result)
              batch_url == BatchUrl(result)
              failed == IF urls.kind = "raise" THEN urls ELSE batch_url
          IN  /\ responses' = Append(responses, result)
              /\ IF failed.kind = "raise"
                 THEN /\ ret' = failed
                      /\ pc' = "done"
                      /\ UNCHANGED requests
                 ELSE /\ requests' =
                            Append(requests,
                                   Post(batch_url.value, ImportData(call.label),
                                        HEADERS, <<>>))
                      /\ pc' = "read_post"
                      /\ UNCHANGED ret
    /\ UNCHANGED call

\* node_data, edge_date = result.json() and the loops after it.
Reconstruct(result) ==
    LET checked == check_exception(result)
    IN  IF checked.kind = "raise" THEN checked
        ELSE IF result.body.kind = "text" THEN json(result)
        ELSE IF result.body.kind = "object"
             THEN IF Cardinality(result.body.object) # 2
                  THEN Raise("ValueError", <<"wrong number of values to unpack">>)
                  ELSE Raise("TypeError",
                             <<"string indices must be integers">>)
        ELSE IF Len(result.body.array) # 2
             THEN Raise("ValueError", <<"wrong number of values to unpack">>)
             ELSE BuildGraph(result.body.array[1], result.body.array[2])

\* get_neo_graph from the answer to the POST on: a rejection, or an answer
\* of another shape than the query's.
ReadRejected ==
    /\ pc = "read_post"
    /\ \E result \in ServerResponses :
          /\ responses' = Append(responses, result)
          /\ ret' = Reconstruct(result)
    /\ pc' = "done"
    /\ UNCHANGED <<call, requests>>

\* get_neo_graph from the answer to the POST on: the answer to the query.
ReadPosted ==
    /\ pc = "read_post"
    /\ \E n \in 0..MaxRecords, e \in 0..MaxRecords :
       \E node_records \in [1..n -> NodeRecords] :
          /\ DistinctNodes(node_records)
          /\ \E edge_records \in [1..e -> EdgeRecords] :
                LET result == Response(200, "application/json; charset=UTF-8",
                                       QueryBody(node_records, edge_records))
                IN  /\ responses' = Append(responses, result)
                    /\ ret' = Reconstruct(result)
    /\ pc' = "done"
    /\ UNCHANGED <<call, requests>>

\* The caller takes the result; the next call starts afresh.
Finish ==
    /\ pc = "done"
    /\ pc' = "idle"
    /\ call' = NoCall
    /\ requests' = <<>>
    /\ responses' = <<>>
    /\ ret' = NoResult

Next ==
    \/ CallGenerateData(1)
    \/ CallCheckException
    \/ CallWriteToNeo
    \/ WriteDiscovered
    \/ WritePosted
    \/ CallGetNeoGraph
    \/ ReadDiscovered
    \/ ReadRejected
    \/ ReadPosted
    \/ Finish

Spec == Init /\ [][Next]_vars

\* generate_data alone, on the graphs of at most MaxEdges edges.
NextBatch == CallGenerateData(MaxEdges) \/ Finish

SpecBatch == Init /\ [][NextBatch]_vars

(***************************************************************************)
(* Properties of generate_data, read off a finished direct call.           *)
(***************************************************************************)
Generated == pc = "done" /\ call.op = "generate_data"

\* The call returned a batch.
Emitted == Generated /\ ret.kind = "return"

Batch == ret.value.array

CreateNodes == SelectSeq(Batch, IsCreateNode)
AddLabels == SelectSeq(Batch, IsAddLabel)
CreateRelationships == SelectSeq(Batch, IsCreateRelationship)

NumNodes == Len(call.graph.nodes)
NumEdges == Len(call.graph.edges)

\* The temp-id the claims give a node: its place in the graph's node order,
\* counted from 0.
TempId(name) == Pos(call.graph.nodes, name) - 1

NodesAsClaimed ==
    /\ Len(CreateNodes) = NumNodes
    /\ \A i \in 1..NumNodes :
          \E j \in 1..Len(CreateNodes) :
             /\ CreateNodes[j].id = i - 1
             /\ CreateNodes[j].body = call.graph.nodes[i][2]

OneLabelPerNode ==
    /\ Len(AddLabels) = NumNodes
    /\ \A i \in 1..NumNodes :
          \E j \in 1..Len(AddLabels) :
             /\ AddLabels[j].to = Placeholder(i - 1) \o <<"/labels">>
             /\ AddLabels[j].body = call.label

\* C1 as claimed: in every emitted batch there are exactly N CreateNode
\* operations, the i-th node of the graph having temp-id i (from 0) and its
\* own properties; N AddLabel operations, one per temp-id, when a label is
\* given (is not None), and none when no label is given.
C1_LabelGiven ==
    Emitted =>
        /\ NodesAsClaimed
        /\ call.label # None => OneLabelPerNode
        /\ call.label = None => Len(AddLabels) = 0

\* C1 as amended: the same, with the N AddLabel operations emitted when the
\* label is a non-empty string, and none emitted when the label is None or
\* the empty string.
C1_LabelNonEmpty ==
    Emitted =>
        /\ NodesAsClaimed
        /\ Truthy(call.label) => OneLabelPerNode
        /\ ~Truthy(call.label) => Len(AddLabels) = 0

\* A batch of a graph of two nodes, the second with properties, with a label.
C1_Witness ==
    /\ Emitted
    /\ NumNodes = 2
    /\ call.graph.nodes[2][2] # {}
    /\ call.label = "ITEM"
    /\ Len(AddLabels) = 2

\* The operation of an edge from u to v named t with properties d.
IsRelationship(e, u, v, t, d) ==
    /\ e.to = Placeholder(TempId(u)) \o <<"/relationships">>
    /\ e.body.to = Placeholder(TempId(v))
    /\ e.body.type = t
    /\ e.body.data = d

\* C2: the emitted batch of a directed graph holds |E| CreateRelationship
\* operations; that of an undirected graph holds 2|E|, the k-th edge (u, v)
\* giving the operation u->v followed at once by the operation v->u with the
\* same type and the same properties.
C2_EdgeCount ==
    Emitted =>
        IF call.graph.directed
        THEN Len(CreateRelationships) = NumEdges
        ELSE /\ Len(CreateRelationships) = 2 * NumEdges
             /\ \A k \in 1..NumEdges :
                   LET edge == call.graph.edges[k]
                       fwd == CreateRelationships[2 * k - 1]
                       rev == CreateRelationships[2 * k]
                   IN  /\ IsRelationship(fwd, edge[1], edge[2],
                                          fwd.body.type, edge[3])
                       /\ IsRelationship(rev, edge[2], edge[1],
                                          fwd.body.type, edge[3])

\* An undirected graph of two edges, one between two nodes and with
\* properties, whose batch was emitted.
C2_Witness ==
    /\ Emitted
    /\ ~call.graph.directed
    /\ NumEdges = 2
    /\ \E k \in 1..2 : /\ call.graph.edges[k][1] # call.graph.edges[k][2]
                        /\ call.graph.edges[k][3] # {}
    /\ Len(CreateRelationships) = 4

\* The type the claims give an edge with the properties d; None when there
\* is none and the call is to fail.
ClaimedType(d) ==
    IF call.edge_rel_key # None
    THEN IF HasKey(d, call.edge_rel_key) THEN Lookup(d, call.edge_rel_key)
         ELSE call.edge_rel_name
    ELSE call.edge_rel_name

\* The first operation of the k-th edge.
ForwardOp(k) ==
    CreateRelationships[IF call.graph.directed THEN k ELSE 2 * k - 1]

\* C3: with a key, an edge that has it is typed by its value (whatever
\* edge_rel_name is) and an edge that lacks it by edge_rel_name; if
\* edge_rel_name is missing too the call raises ValueError and returns no
\* batch; without a key the type is edge_rel_name. The properties of every
\* edge are emitted whole, the key included.
C3_TypeResolution ==
    (Generated /\ ~(call.edge_rel_name = None /\ call.edge_rel_key = None)) =>
        IF \E k \in 1..NumEdges : ClaimedType(call.graph.edges[k][3]) = None
        THEN ret.kind = "raise" /\ ret.exc = "ValueError"
        ELSE /\ ret.kind = "return"
             /\ \A k \in 1..NumEdges :
                   /\ ForwardOp(k).body.type =
                         ClaimedType(call.graph.edges[k][3])
                   /\ ForwardOp(k).body.data = call.graph.edges[k][3]

\* Key and name both given, one edge with the key and one without.
C3_Witness ==
    /\ Emitted
    /\ call.edge_rel_key = "label"
    /\ call.edge_rel_name = "LINKS_TO"
    /\ \E j, k \in 1..NumEdges :
          /\ HasKey(call.graph.edges[j][3], "label")
          /\ ForwardOp(j).body.type = "KNOWS"
          /\ HasKey(ForwardOp(j).body.data, "label")
          /\ ~HasKey(call.graph.edges[k][3], "label")
          /\ ForwardOp(k).body.type = "LINKS_TO"

\* The rank of an operation's kind in the order the claims give.
Rank(e) == IF IsCreateNode(e) THEN 1 ELSE IF IsAddLabel(e) THEN 2 ELSE 3

\* C7: in an emitted batch the CreateNode operations come first, then the
\* AddLabel operations, then the CreateRelationship operations; the
\* AddLabel operations are in ascending temp-id order, like the CreateNode
\* operations, and the CreateRelationship operations are in the graph's edge
\* order.
C7_Ordering ==
    Emitted =>
        /\ \A i, j \in 1..Len(Batch) : i < j => Rank(Batch[i]) <= Rank(Batch[j])
        /\ \A i \in 1..Len(CreateNodes) : CreateNodes[i].id = i - 1
        /\ \A i \in 1..Len(AddLabels) :
              AddLabels[i].to = Placeholder(i - 1) \o <<"/labels">>
        /\ \A k \in 1..NumEdges :
              LET edge == call.graph.edges[k]
              IN  IsRelationship(ForwardOp(k), edge[1], edge[2],
                                 ForwardOp(k).body.type, edge[3])

\* A labelled batch of two nodes and two different edges.
C7_Witness ==
    /\ Emitted
    /\ NumNodes = 2
    /\ Len(AddLabels) = 2
    /\ NumEdges = 2
    /\ call.graph.edges[1][3] # call.graph.edges[2][3]

\* C10 as claimed: the type of every CreateRelationship operation of an
\* emitted batch is a non-empty string.
C10_TypeNonEmpty ==
    Emitted =>
        \A i \in 1..Len(CreateRelationships) :
            CreateRelationships[i].body.type \notin {None, ""}

\* The places in the batch of the CreateRelationship operations, in order.
IsRelationshipAt(p) == IsCreateRelationship(Batch[p])

RelPlaces == SelectSeq([p \in 1..Len(Batch) |-> p], IsRelationshipAt)

\* The place of the first of them, or the end of the batch when there is
\* none.
FirstRelPos(places) == IF places = <<>> THEN Len(Batch) + 1 ELSE places[1]

\* A CreateNode operation with the temp-id i stands before the place p.
CreatedBefore(i, p) ==
    \E q \in 1..(p - 1) : IsCreateNode(Batch[q]) /\ Batch[q].id = i

\* The operation at the place p goes from the node u to the node v, naming
\* the temp-ids of both, each created earlier in the batch.
RefersTo(p, u, v) ==
    /\ Batch[p].to = Placeholder(TempId(u)) \o <<"/relationships">>
    /\ Batch[p].body.to = Placeholder(TempId(v))
    /\ CreatedBefore(TempId(u), p)
    /\ CreatedBefore(TempId(v), p)

\* C11: in every emitted batch the CreateNode operation of every node, and
\* so the whole mapping from node to temp-id, stands before the first
\* CreateRelationship operation, and every CreateRelationship operation,
\* the mirrored one of an undirected edge and that of a self-loop
\* included, names in its source placeholder and in its target placeholder
\* the temp-ids of its edge's own source and target, each the id of a
\* CreateNode operation earlier in the batch.
C11_NoDanglingReference ==
    Emitted =>
        LET places == RelPlaces
            first == FirstRelPos(places)
        IN  /\ \A i \in 1..NumNodes : CreatedBefore(i - 1, first)
            /\ \A q \in 1..Len(Batch) : IsCreateNode(Batch[q]) => q < first
            /\ Len(places) =
                  (IF call.graph.directed THEN NumEdges ELSE 2 * NumEdges)
            /\ \A k \in 1..NumEdges :
                  LET edge == call.graph.edges[k]
                  IN  IF call.graph.directed
                      THEN RefersTo(places[k], edge[1], edge[2])
                      ELSE /\ RefersTo(places[2 * k - 1], edge[1], edge[2])
                           /\ RefersTo(places[2 * k], edge[2], edge[1])

\* The batch of an undirected graph with a self-loop on its second node and
\* an edge between its two nodes.
C11_Witness ==
    /\ Emitted
    /\ ~call.graph.directed
    /\ NumNodes = 2
    /\ \E k \in 1..NumEdges :
          /\ call.graph.edges[k][1] = call.graph.edges[k][2]
          /\ TempId(call.graph.edges[k][1]) = 1
    /\ \E k \in 1..NumEdges : call.graph.edges[k][1] # call.graph.edges[k][2]
    /\ Len(CreateRelationships) = 4

(***************************************************************************)
(* Properties of the calls.                                                *)
(***************************************************************************)
\* C4: generate_data and write_to_neo called with neither edge_rel_name nor
\* edge_rel_key raise ValueError, whatever the graph, and write_to_neo does
\* so before any request is issued.
C4_NeitherGiven ==
    (/\ call.op \in {"generate_data", "write_to_neo"}
     /\ call.edge_rel_name = None
     /\ call.edge_rel_key = None) =>
        /\ pc = "done"
        /\ ret.kind = "raise"
        /\ ret.exc = "ValueError"
        /\ requests = <<>>
        /\ responses = <<>>

\* write_to_neo failed so on the empty graph.
C4_Witness ==
    /\ call.op = "write_to_neo"
    /\ call.edge_rel_name = None
    /\ call.edge_rel_key = None
    /\ call.graph.nodes = <<>>
    /\ ret.kind = "raise"

\* C5 as claimed: check_exception returns if and only if the status is 200;
\* otherwise it raises the module's error, an Exception, which holds the
\* `errors` entry of the body when the content type is the JSON one and
\* "Unknown server error." with the raw body when it is not.
C5_Validate ==
    (pc = "done" /\ call.op = "check_exception") =>
        LET result == call.result
        IN  /\ ret.kind = "return" <=> result.status_code = 200
            /\ result.status_code # 200 =>
                 /\ ret.exc = "Exception"
                 /\ IF Lower(result.content_type) = JSON_CONTENT_TYPE
                    THEN /\ HasKey(result.body.object, "errors")
                         /\ ret.value =
                               <<Lookup(result.body.object, "errors")>>
                    ELSE ret.value =
                            <<"Unknown server error.", result.body.text>>

\* The import returned a graph, built from these records.
Imported ==
    /\ pc = "done"
    /\ call.op = "get_neo_graph"
    /\ ret.kind = "return"

NodeRecs == responses[2].body.array[1]
EdgeRecs == responses[2].body.array[2]

\* The integer a node record's self-URL ends in, for the URLs that end in
\* one.
ClaimedId(url) ==
    CASE url = URL_1 -> 1
      [] url = URL_01 -> 1
      [] url = URL_2 -> 2

\* The premise of C6: every self-URL ends in an integer and every endpoint of
\* an edge record is the id of a node record.
WellFormedRecords ==
    /\ \A i \in 1..Len(NodeRecs) : NodeRecs[i].self # URL_X
    /\ \A i \in 1..Len(EdgeRecs) :
          \A n \in {EdgeRecs[i][1], EdgeRecs[i][3]} :
             \E j \in 1..Len(NodeRecs) : ClaimedId(NodeRecs[j].self) = n

\* No two node records have the same id.
DistinctIds ==
    \A i, j \in 1..Len(NodeRecs) : i < j =>
        ClaimedId(NodeRecs[i].self) # ClaimedId(NodeRecs[j].self)

\* The properties the claim gives the edge of one edge record.
ClaimedEdgeProps(rec) ==
    {p \in rec[2].data : p[1] # "neo_rel_name"} \cup
    {<<"neo_rel_name", rec[2].type>>}

NodesAndEdgesOfRecords ==
    /\ {ret.value.nodes[i][1] : i \in 1..Len(ret.value.nodes)} =
          {ClaimedId(NodeRecs[i].self) : i \in 1..Len(NodeRecs)}
    /\ Keys(ret.value.edges) =
          {<<EdgeRecs[i][1], EdgeRecs[i][3]>> : i \in 1..Len(EdgeRecs)}

\* C6 as claimed: the nodes are the trailing integers of the node records,
\* each with its record's properties; the edges are the (from, to) pairs of
\* the edge records, each with its relationship's data plus neo_rel_name.
C6_PerRecord ==
    (Imported /\ WellFormedRecords) =>
        /\ NodesAndEdgesOfRecords
        /\ \A i \in 1..Len(NodeRecs) :
              ODictGet(ret.value.nodes, ClaimedId(NodeRecs[i].self)) =
                 NodeRecs[i].data
        /\ \A i \in 1..Len(EdgeRecs) :
              Lookup(ret.value.edges, <<EdgeRecs[i][1], EdgeRecs[i][3]>>) =
                 ClaimedEdgeProps(EdgeRecs[i])

\* Record order merge: for each key, the value of the last of the mappings
\* that has the key.
LastWins(mappings) ==
    {p \in UNION {mappings[i] : i \in 1..Len(mappings)} :
        \E i \in 1..Len(mappings) :
            /\ p \in mappings[i]
            /\ \A j \in (i + 1)..Len(mappings) : ~HasKey(mappings[j], p[1])}

EdgeMappings(u, v) ==
    LET recs == SelectSeq(EdgeRecs, LAMBDA r : r[1] = u /\ r[3] = v)
    IN  [i \in 1..Len(recs) |-> ClaimedEdgeProps(recs[i])]

\* C6 as amended: the same nodes, with their records' properties, and the
\* same edges; an edge that one record describes has the properties
\* claimed, and one that several records describe (several relationships
\* from the same node to the same node) has their property mappings, each
\* with its neo_rel_name, merged in record order, a later record's value
\* replacing an earlier one's.
C6_Merged ==
    (Imported /\ WellFormedRecords /\ DistinctIds) =>
        /\ NodesAndEdgesOfRecords
        /\ \A i \in 1..Len(NodeRecs) :
              ODictGet(ret.value.nodes, ClaimedId(NodeRecs[i].self)) =
                 NodeRecs[i].data
        /\ \A e \in ret.value.edges :
              e[2] = LastWins(EdgeMappings(e[1][1], e[1][2]))

\* Two nodes and two relationships from the one to the other, the first with
\* a neo_rel_name property of its own and the second with a date.
C6_Witness ==
    /\ Imported
    /\ WellFormedRecords
    /\ Len(ret.value.nodes) = 2
    /\ Len(EdgeRecs) = 2
    /\ EdgeRecs[1][1] # EdgeRecs[1][3]
    /\ <<EdgeRecs[1][1], EdgeRecs[1][3]>> = <<EdgeRecs[2][1], EdgeRecs[2][3]>>
    /\ HasKey(EdgeRecs[1][2].data, "neo_rel_name")
    /\ Lookup(ret.value.edges, <<EdgeRecs[1][1], EdgeRecs[1][3]>>) =
          {<<"neo_rel_name", "LINKS_TO">>, <<"date", "2011-01-01">>}

\* C8: a call of write_to_neo or get_neo_graph issues at most two requests,
\* first the GET of the server URL, then the POST to the `batch` entry of the
\* answer to the GET, sent only after that answer had status 200; a call
\* that returns has issued both and got status 200 for both.
C8_TwoRequests ==
    call.op \in {"write_to_neo", "get_neo_graph"} =>
        /\ Len(requests) <= 2
        /\ Len(responses) <= Len(requests)
        /\ Len(requests) >= 1 =>
              /\ requests[1].method = "GET"
              /\ requests[1].url = call.server_url
        /\ Len(requests) = 2 =>
              /\ requests[2].method = "POST"
              /\ Len(responses) >= 1
              /\ responses[1].status_code = 200
              /\ HasKey(responses[1].body.object, "batch")
              /\ requests[2].url = Lookup(responses[1].body.object, "batch")
        /\ (pc = "done" /\ ret.kind = "return") =>
              /\ Len(requests) = 2
              /\ Len(responses) = 2
              /\ \A i \in 1..2 : responses[i].status_code = 200
        /\ (\E i \in 1..Len(responses) : responses[i].status_code # 200) =>
              /\ pc = "done"
              /\ ret.kind = "raise"
              /\ Len(requests) = Len(responses)

\* An export that returned the server's answer.
C8_Witness ==
    /\ pc = "done"
    /\ call.op = "write_to_neo"
    /\ ret.kind = "return"
    /\ ret.value = <<"Dummy">>
    /\ Len(requests) = 2

\* C9 as claimed: every request of write_to_neo and of get_neo_graph has the
\* caller's user and password as its auth, and every POST has the JSON
\* content-type header.
C9_Authenticated ==
    call.op \in {"write_to_neo", "get_neo_graph"} =>
        \A i \in 1..Len(requests) :
            /\ requests[i].auth = <<call.user, call.password>>
            /\ requests[i].method = "POST" =>
                  <<"content-type", JSON_CONTENT_TYPE>> \in requests[i].headers

====
